---- MODULE Spec2Model ----
(***************************************************************************)
(* cryodrgn_utils clean (cryodrgn/commands_utils/clean.py) and the         *)
(* TrainDir test fixture (tests/conftest.py).                              *)
(*                                                                         *)
(* Representation.  A file or directory name is the sequence of its        *)
(* dot-separated segments (what name.split(".") returns); a segment, like  *)
(* every other Python string of the model, is a sequence of atoms.  An     *)
(* atom is either one decimal digit or an opaque chunk of non-digit ASCII  *)
(* characters that does not straddle the substring "cryodrgn".  So         *)
(* weights.10.pkl is << <<"weights">>, <<"1","0">>, <<"pkl">> >>.          *)
(* Names are ASCII: str.isnumeric() then coincides with "only digits".     *)
(***************************************************************************)
EXTENDS Integers, Sequences, FiniteSets, TLC

VARIABLES
    \* ---- clean_dir called on one directory (SpecClean)
    dir,          \* the directory d: [files : name -> content, dirs : set of names]
    before,       \* d as it was when the last clean_dir call started
    last,         \* the last clean_dir call: [called, n, dry]
    rmv_count,    \* the count the last call printed
    prev,         \* the call before the last one, when nothing was written in between
    \* ---- check_open_config on one directory (SpecConfig)
    cdir,         \* the directory handed to check_open_config
    cres,         \* its outcome: [done, exc, val]
    \* ---- main (SpecMain)
    fs,           \* path -> directory
    fs0,          \* fs as it was when main started
    margs,        \* the parsed command line
    pc,           \* "start" | "loop" | "done" | "error"
    scan_dirs,    \* the scan queue
    log,          \* one entry per loop iteration: the directory and what was done with it
    cleaned,      \* the directories clean_dir was entered for
    \* ---- TrainDir (SpecFixture)
    td            \* the fixture object and its output directory

vars == <<dir, before, last, rmv_count, prev, cdir, cres,
          fs, fs0, margs, pc, scan_dirs, log, cleaned, td>>

cleanVars   == <<dir, before, last, rmv_count, prev>>
configVars  == <<cdir, cres>>
mainVars    == <<fs, fs0, margs, pc, scan_dirs, log, cleaned>>
fixtureVars == <<td>>

(***************************************************************************)
(* Bounds of the model.                                                    *)
(***************************************************************************)
MaxEpoch == 3       \* epochs 0..MaxEpoch appear in file and directory names
MaxN == 2           \* --every-n-epochs ranges over 1..MaxN
MaxFiles == 2       \* files initially in a directory handed to clean_dir
MaxCmdLen == 2      \* tokens in the cmd list of a config file
MaxGlobs == 1       \* path patterns on the command line
MaxTrainEpochs == 2  \* epochs of a training run of the fixture
MaxMissing == 1     \* output files a training run may fail to write

(***************************************************************************)
(* Python strings and integers.                                            *)
(***************************************************************************)
Digits == <<"0", "1", "2", "3", "4", "5", "6", "7", "8", "9">>

IsDigit(c) == \E i \in 1..10 : Digits[i] = c

DigitVal(c) == (CHOOSE i \in 1..10 : Digits[i] = c) - 1

\* str.isnumeric() on an ASCII string
isnumeric(s) == Len(s) > 0 /\ \A i \in 1..Len(s) : IsDigit(s[i])

\* int(s) for a string of decimal digits
RECURSIVE int(_)
int(s) ==
    IF Len(s) = 0 THEN 0
    ELSE 10 * int(SubSeq(s, 1, Len(s) - 1)) + DigitVal(s[Len(s)])

\* str(n), as an f-string formats a non-negative int
RECURSIVE str(_)
str(n) ==
    IF n < 10 THEN <<Digits[n + 1]>>
    ELSE str(n \div 10) \o <<Digits[(n % 10) + 1]>>

Word(w) == <<w>>

\* the name <first>.<second>.<third>
Name3(a, b, c) == <<a, b, c>>
Name2(a, b) == <<a, b>>

\* a regular file's content: a version stamp of the bytes it holds
Data(v) == [kind |-> "data", ver |-> v]

NoFiles == [x \in {} |-> Data(0)]

(***************************************************************************)
(* clean_dir                                                               *)
(***************************************************************************)
\* the default of --every-n-epochs
every_n_epochs_default == 5

out_lbls == <<"weights", "z", "pose", "reconstruct">>

\* the Namespace argparse builds, and what main passes in its place
Namespace(n, force, dry) ==
    [ns |-> TRUE, every_n_epochs |-> n, force |-> force, dry_run |-> dry]

\* out_dir.name[:8] == "analyze." : the first segment is "analyze" and a dot follows
IsAnalyzeName(name) == Len(name) >= 2 /\ name[1] = Word("analyze")

analysis_epochs(d) ==
    { int(name[2]) : name \in { x \in d.dirs : IsAnalyzeName(x) /\ isnumeric(x[2]) } }

\* d.glob(f"{out_lbl}.*") : the entries of d whose name starts with out_lbl and a dot
GlobLbl(d, out_lbl) ==
    { name \in (DOMAIN d.files) \cup d.dirs : Len(name) >= 2 /\ name[1] = Word(out_lbl) }

\* mutant: the analysis epochs are not consulted
ShouldRemoveNoAnalysis(d, out_fl, a) ==
    /\ out_fl \in DOMAIN d.files
    /\ isnumeric(out_fl[2])
    /\ (int(out_fl[2]) % a.every_n_epochs) # 0

\* the condition of the if statement (lines 90-94), for a Namespace
ShouldRemove(d, out_fl, a) ==
    /\ out_fl \in DOMAIN d.files
    /\ isnumeric(out_fl[2])
    /\ (int(out_fl[2]) % a.every_n_epochs) # 0
    /\ int(out_fl[2]) \notin analysis_epochs(d)

\* mutant: every n-th file of the listing is kept, not every n-th epoch
RemovedForByPosition(d, out_lbl, a) ==
    LET numbered == { f \in GlobLbl(d, out_lbl) :
                        f \in DOMAIN d.files /\ isnumeric(f[2]) }
        pos(f) == 1 + Cardinality({ g \in numbered : int(g[2]) < int(f[2]) })
    IN  { f \in numbered :
            (pos(f) % a.every_n_epochs) # 0 /\ int(f[2]) \notin analysis_epochs(d) }

\* the files the inner loop removes (or counts) for one label
RemovedFor(d, out_lbl, a) == { f \in GlobLbl(d, out_lbl) : ShouldRemove(d, f, a) }

RECURSIVE CountFrom(_, _, _)
CountFrom(d, i, a) ==
    IF i > Len(out_lbls) THEN 0
    ELSE Cardinality(RemovedFor(d, out_lbls[i], a)) + CountFrom(d, i + 1, a)

Restrict(f, S) == [x \in S |-> f[x]]

\* mutant: --dry-run is not honoured
clean_dir_ignoring_dry_run(d, a) ==
    LET gone == UNION { RemovedFor(d, out_lbls[i], a) : i \in 1..Len(out_lbls) }
    IN  [dir |-> [d EXCEPT !.files = Restrict(d.files, (DOMAIN d.files) \ gone)],
         rmv_count |-> CountFrom(d, 1, a),
         exc |-> IF a.ns THEN "none" ELSE "AttributeError"]

\* clean_dir(d, args): the directory afterwards, the count printed, the exception
clean_dir(d, a) ==
    IF ~a.ns
    THEN \* args is an int: args.every_n_epochs (line 92) or args.dry_run (line 99)
         \* raises before anything is removed
         [dir |-> d, rmv_count |-> 0, exc |-> "AttributeError"]
    ELSE LET gone == UNION { RemovedFor(d, out_lbls[i], a) : i \in 1..Len(out_lbls) }
         IN  [dir |-> IF a.dry_run THEN d
                      ELSE [d EXCEPT !.files = Restrict(d.files, (DOMAIN d.files) \ gone)],
              rmv_count |-> CountFrom(d, 1, a),
              exc |-> "none"]

\* the variables of the other specifications, at rest
Idle == [files |-> NoFiles, dirs |-> {}]

ConfigIdle == cdir = Idle /\ cres = 0

MainIdle ==
    /\ fs = 0 /\ fs0 = 0 /\ margs = 0 /\ pc = "idle"
    /\ scan_dirs = <<>> /\ log = <<>> /\ cleaned = {}

FixtureIdle == td = 0

CleanIdle ==
    /\ dir = Idle /\ before = Idle /\ last = 0
    /\ rmv_count = 0 /\ prev = 0

(***************************************************************************)
(* Python values, as yaml.safe_load builds them                            *)
(***************************************************************************)
PyNone == [t |-> "none"]
PyInt(i) == [t |-> "int", i |-> i]
PyStr(s) == [t |-> "str", s |-> s]
PyList(items) == [t |-> "list", items |-> items]
PyMap(m) == [t |-> "map", m |-> m]           \* m : key (a string) -> value
EmptyMap == PyMap([k \in {} |-> PyNone])

Returns(v) == [exc |-> "none", val |-> v]
Raises(e) == [exc |-> e, val |-> PyNone]

\* bool(v): the truth value `if cfg:` and `not cfg` test
Truthy(v) ==
    CASE v.t = "none" -> FALSE
      [] v.t = "int"  -> v.i # 0
      [] v.t = "str"  -> Len(v.s) > 0
      [] v.t = "list" -> Len(v.items) > 0
      [] v.t = "map"  -> DOMAIN v.m # {}

\* `word in c` for a str word that is one atom
Contains(c, word) ==
    CASE c.t = "map"  -> Returns(word \in DOMAIN c.m)
      [] c.t = "list" -> Returns(\E i \in 1..Len(c.items) : c.items[i] = PyStr(Word(word)))
      [] c.t = "str"  -> Returns(\E i \in 1..Len(c.s) : c.s[i] = word)
      [] OTHER        -> Raises("TypeError")

\* c[key] for a str key
GetKey(c, key) ==
    CASE c.t = "map" -> IF key \in DOMAIN c.m THEN Returns(c.m[key]) ELSE Raises("KeyError")
      [] OTHER       -> Raises("TypeError")

\* the number of characters of a string is at least this: an opaque atom stands
\* for two or more characters, a digit for one
MinChars(s) == IF \A i \in 1..Len(s) : IsDigit(s[i]) THEN Len(s) ELSE Len(s) + 1

\* c[i] for an int i >= 0; a character of a string that holds an opaque atom is
\* the one-character string "?"
GetIndex(c, i) ==
    CASE c.t = "list" ->
            IF i < Len(c.items) THEN Returns(c.items[i + 1]) ELSE Raises("IndexError")
      [] c.t = "str"  ->
            IF i >= MinChars(c.s) THEN Raises("IndexError")
            ELSE IF \A j \in 1..Len(c.s) : IsDigit(c.s[j])
                 THEN Returns(PyStr(<<c.s[i + 1]>>))
                 ELSE Returns(PyStr(<<"?">>))
      [] c.t = "map"  -> Raises("KeyError")
      [] OTHER        -> Raises("TypeError")

(***************************************************************************)
(* check_open_config                                                       *)
(***************************************************************************)
NORMAL_EXCEPTIONS ==
    {"EOFError", "BufferError", "UnpicklingError", "ImportError", "IndexError",
     "AttributeError"}

cryodrgn_cmds == {"abinit_homo", "abinit_het", "train_nn", "train_vae"}

\* product(["config", "configs"], [".yaml", ".yml"]), in its order
ConfigNames ==
    << Name2(Word("config"), Word("yaml")), Name2(Word("config"), Word("yml")),
       Name2(Word("configs"), Word("yaml")), Name2(Word("configs"), Word("yml")) >>

\* a config file's content is what open() and yaml.safe_load make of it
Yaml(outcome) == [kind |-> "yaml", load |-> outcome]

\* the index in ConfigNames of the file the for loop breaks on, 0 when config stays None
FirstConfig(d) ==
    IF \E i \in 1..Len(ConfigNames) : ConfigNames[i] \in DOMAIN d.files
    THEN CHOOSE i \in 1..Len(ConfigNames) :
            /\ ConfigNames[i] \in DOMAIN d.files
            /\ \A j \in 1..(i - 1) : ConfigNames[j] \notin DOMAIN d.files
    ELSE 0

\* `x not in cryodrgn_cmds`: a set lookup, which hashes x
NotInCmds(x) ==
    CASE x.t \in {"list", "map"} -> Raises("TypeError")
      [] x.t = "str" -> Returns(~(Len(x.s) = 1 /\ x.s[1] \in cryodrgn_cmds))
      [] OTHER -> Returns(TRUE)

\* the condition of lines 155-160, evaluated left to right with short circuit
BadShape(cfg) ==
    LET a == Contains(cfg, "cmd") IN
    IF a.exc # "none" THEN a ELSE IF ~a.val THEN Returns(TRUE) ELSE
    LET c == GetKey(cfg, "cmd") IN
    IF c.exc # "none" THEN c ELSE
    LET c0 == GetIndex(c.val, 0) IN
    IF c0.exc # "none" THEN c0 ELSE
    LET b == Contains(c0.val, "cryodrgn") IN
    IF b.exc # "none" THEN b ELSE IF ~b.val THEN Returns(TRUE) ELSE
    LET c1 == GetIndex(c.val, 1) IN
    IF c1.exc # "none" THEN c1 ELSE
    LET e == NotInCmds(c1.val) IN
    IF e.exc # "none" THEN e ELSE IF e.val THEN Returns(TRUE) ELSE
    LET g == Contains(cfg, "dataset_args") IN
    IF g.exc # "none" THEN g ELSE Returns(~g.val)

\* check_open_config(d): what it returns, or the exception that leaves it
check_open_config(d) ==
    LET k == FirstConfig(d) IN
    IF k = 0 THEN Returns(PyNone)
    ELSE LET loaded == d.files[ConfigNames[k]].load IN
         IF loaded.exc \in NORMAL_EXCEPTIONS THEN Returns(PyNone)
         ELSE IF loaded.exc # "none" THEN loaded
         ELSE LET bad == BadShape(loaded.val) IN
              IF bad.exc # "none" THEN bad
              ELSE IF bad.val THEN Returns(EmptyMap)
              ELSE Returns(loaded.val)

(***************************************************************************)
(* SpecConfig: check_open_config applied to one directory.                 *)
(***************************************************************************)
CmdTokens ==
    { PyStr(Word("cryodrgn")), PyStr(<<"/usr/bin/", "cryodrgn">>), PyStr(Word("relion")),
      PyStr(Word("train_nn")), PyStr(Word("eval_vol")), PyInt(5) }

RECURSIVE ListsUpTo(_, _)
ListsUpTo(T, n) ==
    IF n = 0 THEN { <<>> }
    ELSE LET shorter == ListsUpTo(T, n - 1)
         IN  shorter \cup { Append(l, x) : l \in { m \in shorter : Len(m) = n - 1 }, x \in T }

CmdValues ==
    { PyList(l) : l \in ListsUpTo(CmdTokens, MaxCmdLen) }
        \cup { PyStr(<<"cryodrgn", " ", "train_nn">>), PyNone,
               PyMap([k \in {"exe"} |-> PyStr(Word("cryodrgn"))]) }

\* a mapping with or without each of cmd, dataset_args and seed
ConfigMaps ==
    { PyMap([k \in K |-> IF k = "cmd" THEN c ELSE PyInt(0)]) :
        K \in SUBSET {"cmd", "dataset_args", "seed"}, c \in CmdValues }

ConfigValues ==
    ConfigMaps \cup
        { PyNone, PyInt(5), PyStr(<<"cmd", " ", "cryodrgn">>), PyStr(Word("hello")),
          PyList(<<>>), PyList(<<PyStr(Word("cmd"))>>) }

ConfigContents ==
    { Yaml(Returns(v)) : v \in ConfigValues }
        \cup { Yaml(Raises(e)) : e \in {"YAMLError", "UnicodeDecodeError", "AttributeError"} }

\* the config a training run writes
TrainedConfig(train_cmd) ==
    PyMap([k \in {"cmd", "dataset_args", "seed"} |->
            IF k = "cmd"
            THEN PyList(<<PyStr(<<"/usr/bin/", "cryodrgn">>), PyStr(Word(train_cmd))>>)
            ELSE PyInt(0)])

\* the directories: any of the four config files present, the one the loop
\* finds first holding any content, the others a config of a training run;
\* config.yaml may be a directory
ConfigDirs ==
    { [files |-> [x \in { ConfigNames[i] : i \in P } |->
                    IF \A j \in P : ConfigNames[j] = x => \A i \in P : i >= j
                    THEN c ELSE Yaml(Returns(TrainedConfig("train_nn")))],
       dirs |-> IF asdir /\ 1 \notin P THEN { ConfigNames[1] } ELSE {}] :
        P \in SUBSET (1..Len(ConfigNames)), c \in ConfigContents, asdir \in BOOLEAN }

NotRun == [done |-> FALSE, exc |-> "none", val |-> PyNone]

InitConfig ==
    /\ cdir \in ConfigDirs
    /\ cres = NotRun
    /\ CleanIdle /\ MainIdle /\ FixtureIdle

CheckOpenConfig ==
    /\ ~cres.done
    /\ LET r == check_open_config(cdir)
       IN  cres' = [done |-> TRUE, exc |-> r.exc, val |-> r.val]
    /\ UNCHANGED <<cdir, cleanVars, mainVars, fixtureVars>>

NextConfig == CheckOpenConfig

SpecConfig == InitConfig /\ [][NextConfig]_vars

(***************************************************************************)
(* Claims about check_open_config, checked under SpecConfig.               *)
(***************************************************************************)
\* the config file of d: the first of the four names that is a file of d
HasConfig(d) == \E i \in 1..Len(ConfigNames) : ConfigNames[i] \in DOMAIN d.files

ConfigLoad(d) ==
    d.files[ConfigNames[CHOOSE i \in 1..Len(ConfigNames) :
                /\ ConfigNames[i] \in DOMAIN d.files
                /\ \A j \in 1..Len(ConfigNames) :
                      ConfigNames[j] \in DOMAIN d.files => i <= j]].load

ParsesToMapping(d) ==
    HasConfig(d) /\ ConfigLoad(d).exc = "none" /\ ConfigLoad(d).val.t = "map"

\* cmd is a list of at least two tokens
CmdIsTokenList(m) ==
    "cmd" \in DOMAIN m.m /\ m.m["cmd"].t = "list" /\ Len(m.m["cmd"].items) >= 2

\* the shape of a recognized config
Recognized(m) ==
    /\ CmdIsTokenList(m)
    /\ LET first == m.m["cmd"].items[1]
           second == m.m["cmd"].items[2]
       IN  /\ first.t = "str" /\ \E i \in 1..Len(first.s) : first.s[i] = "cryodrgn"
           /\ second.t = "str" /\ Len(second.s) = 1
           /\ second.s[1] \in {"abinit_homo", "abinit_het", "train_nn", "train_vae"}
    /\ "dataset_args" \in DOMAIN m.m

\* a missing, malformed or unparsable config
MissingOrMalformed(d) ==
    \/ ~HasConfig(d)
    \/ ConfigLoad(d).exc # "none"
    \/ ConfigLoad(d).val.t # "map"
    \/ "cmd" \in DOMAIN ConfigLoad(d).val.m /\ ~CmdIsTokenList(ConfigLoad(d).val)

\* C4: for a directory with a missing, malformed or unparsable config,
\* check_open_config returns an empty mapping and no exception escapes.
C4_MalformedGivesEmptyMapping ==
    (cres.done /\ MissingOrMalformed(cdir)) => (cres.exc = "none" /\ cres.val = EmptyMap)

\* C5: for a directory whose config parses to a mapping M, check_open_config
\* returns M if M has the recognized shape, and an empty mapping in every other case.
C5_MappingClassified ==
    (cres.done /\ ParsesToMapping(cdir)) =>
        /\ cres.exc = "none"
        /\ cres.val = IF Recognized(ConfigLoad(cdir).val)
                      THEN ConfigLoad(cdir).val ELSE EmptyMap

(***************************************************************************)
(* SpecClean: clean_dir called, any number of times, on one directory.     *)
(***************************************************************************)
\* file names: weights.<e>.pkl for the epochs in range, weights.03.pkl (a leading
\* zero), weights.pkl (no epoch), z.1.pkl, config.yaml
FileUniverse ==
    { Name3(Word("weights"), str(e), Word("pkl")) : e \in 0..MaxEpoch }
        \cup { Name3(Word("weights"), <<"0", "3">>, Word("pkl")),
               Name2(Word("weights"), Word("pkl")),
               Name3(Word("z"), <<"1">>, Word("pkl")),
               Name2(Word("config"), Word("yaml")) }

\* subdirectories: analyze.1, analyze.x, and a directory called weights.1.pkl
SubdirUniverse ==
    { Name2(Word("analyze"), <<"1">>),
      Name2(Word("analyze"), Word("x")),
      Name3(Word("weights"), <<"1">>, Word("pkl")) }

Dirs0 ==
    { [files |-> [x \in F |-> Data(0)], dirs |-> S] :
        F \in { G \in SUBSET FileUniverse : Cardinality(G) <= MaxFiles },
        S \in SUBSET SubdirUniverse }

NoCall == [called |-> FALSE, n |-> 1, dry |-> FALSE, rmv_count |-> 0]

InitClean ==
    /\ dir \in { d \in Dirs0 : (DOMAIN d.files) \cap d.dirs = {} }
    /\ before = dir
    /\ last = NoCall
    /\ rmv_count = 0
    /\ prev = NoCall
    /\ ConfigIdle /\ MainIdle /\ FixtureIdle

CleanDirCall(n, dry) ==
    LET r == clean_dir(dir, Namespace(n, FALSE, dry))
    IN  /\ before' = dir
        /\ dir' = r.dir
        /\ rmv_count' = r.rmv_count
        /\ last' = [called |-> TRUE, n |-> n, dry |-> dry, rmv_count |-> r.rmv_count]
        /\ prev' = last

\* between two calls something else writes a file the last call removed back
WriteFile(name) ==
    /\ name \in DOMAIN before.files
    /\ name \notin DOMAIN dir.files
    /\ dir' = [dir EXCEPT !.files = [x \in (DOMAIN dir.files) \cup {name} |->
                                        IF x = name THEN Data(0) ELSE dir.files[x]]]
    /\ last' = NoCall
    /\ prev' = NoCall
    /\ UNCHANGED <<before, rmv_count>>

NextClean ==
    \/ \E n \in 1..MaxN, dry \in BOOLEAN : CleanDirCall(n, dry) /\ UNCHANGED <<configVars, mainVars, fixtureVars>>
    \/ \E name \in FileUniverse : WriteFile(name) /\ UNCHANGED <<configVars, mainVars, fixtureVars>>

SpecClean == InitClean /\ [][NextClean]_vars

(***************************************************************************)
(* Claims about clean_dir, checked under SpecClean.                        *)
(***************************************************************************)
CheckpointLabels == {"weights", "z", "pose", "reconstruct"}

\* the regular files of d named <label>.<epoch>... with a numeric epoch
CheckpointFiles(d) ==
    { f \in DOMAIN d.files :
        /\ Len(f) >= 2
        /\ \E l \in CheckpointLabels : f[1] = Word(l)
        /\ isnumeric(f[2]) }

\* the epochs of the analyze.<epoch> subdirectories of d
AnalysisEpochSet(d) ==
    { int(x[2]) : x \in { y \in d.dirs :
                            Len(y) >= 2 /\ y[1] = Word("analyze") /\ isnumeric(y[2]) } }

\* the retention rule: epoch E goes under modulus n
RuleDeletes(d, f, n) == int(f[2]) % n # 0 /\ int(f[2]) \notin AnalysisEpochSet(d)

\* C1: after clean_dir(d) without dry-run, a checkpoint file of d with epoch E has
\* been deleted iff E mod N # 0 and E is not in the analysis epoch set of d.
C1_DeletedIffRule ==
    (last.called /\ ~last.dry) =>
        \A f \in CheckpointFiles(before) :
            (f \notin DOMAIN dir.files) <=> RuleDeletes(before, f, last.n)

\* C1 witness: one call deleted a file, kept a file whose epoch N divides and kept
\* a file whose epoch N does not divide but an analyze.<epoch> directory names
C1_Witness ==
    /\ last.called /\ ~last.dry
    /\ \E f \in CheckpointFiles(before) : f \notin DOMAIN dir.files
    /\ \E f \in CheckpointFiles(before) :
          /\ f \in DOMAIN dir.files
          /\ int(f[2]) % last.n # 0
          /\ int(f[2]) \in AnalysisEpochSet(before)

\* C3: in dry-run mode clean_dir leaves the directory as it was, and the count it
\* reports is the number of checkpoint files the rule deletes, which is the number
\* of files a call without dry-run removes from the same directory with the same N.
C3_DryRunCountsOnly ==
    (last.called /\ last.dry) =>
        /\ dir = before
        /\ rmv_count =
             Cardinality({ f \in CheckpointFiles(before) : RuleDeletes(before, f, last.n) })
        /\ rmv_count =
             Cardinality((DOMAIN before.files) \
                 DOMAIN clean_dir(before, Namespace(last.n, FALSE, FALSE)).dir.files)

\* C3 witness: a dry run that reported a positive count
C3_Witness == last.called /\ last.dry /\ rmv_count > 0 /\ dir = before

\* C7: a second clean_dir, with the same N and directly after a first one (both
\* without dry-run, nothing written in between), removes nothing: its count is 0
\* and the directory is as the first call left it.
C7_SecondRunRemovesNothing ==
    (last.called /\ ~last.dry /\ prev.called /\ ~prev.dry /\ prev.n = last.n) =>
        (rmv_count = 0 /\ dir = before)

\* C7 witness: the first of the two calls removed files, the second has run
C7_Witness ==
    /\ last.called /\ ~last.dry /\ prev.called /\ ~prev.dry /\ prev.n = last.n
    /\ prev.rmv_count > 0

(***************************************************************************)
(* _prompt_dir and main                                                    *)
(*                                                                         *)
(* A directory path is the sequence of its parts, as pathlib keeps it; the *)
(* current directory, Path("."), has no parts.                             *)
(***************************************************************************)
cwd == <<>>

\* mutant: the directory is cleaned whatever the classification was
prompt_dir_unconditional(d, cfg, a, answer) ==
    IF a.force \/ a.dry_run \/ answer \notin {"s", "skip"}
    THEN clean_dir(d, a) @@ [prompted |-> FALSE, entered |-> TRUE]
    ELSE [dir |-> d, exc |-> "none", rmv_count |-> 0, prompted |-> TRUE, entered |-> FALSE]

\* _prompt_dir(d, cfg, maxlen, args), the operator typing `answer` when asked:
\* the directory afterwards, whether input() was called, whether clean_dir was entered
prompt_dir(d, cfg, a, answer) ==
    IF ~Truthy(cfg)
    THEN [dir |-> d, exc |-> "none", rmv_count |-> 0, prompted |-> FALSE, entered |-> FALSE]
    ELSE IF a.force \/ a.dry_run
    THEN clean_dir(d, a) @@ [prompted |-> FALSE, entered |-> TRUE]
    ELSE IF answer \notin {"s", "skip"}
    THEN clean_dir(d, a) @@ [prompted |-> TRUE, entered |-> TRUE]
    ELSE [dir |-> d, exc |-> "none", rmv_count |-> 0, prompted |-> TRUE, entered |-> FALSE]

\* p.parents
Parents(p) == { SubSeq(p, 1, k) : k \in 0..(Len(p) - 1) }

\* the order of str on the directory names of the model
PartOrder == <<"a", "b", "c">>

PartRank(x) == CHOOSE i \in 1..Len(PartOrder) : PartOrder[i] = x

\* Path.__lt__: the parts compared as tuples
RECURSIVE PathLess(_, _)
PathLess(p, q) ==
    IF Len(p) = 0 THEN Len(q) > 0
    ELSE IF Len(q) = 0 THEN FALSE
    ELSE IF p[1] = q[1] THEN PathLess(Tail(p), Tail(q))
    ELSE PartRank(p[1]) < PartRank(q[1])

RECURSIVE sorted(_)
sorted(S) ==
    IF S = {} THEN <<>>
    ELSE LET m == CHOOSE x \in S : \A y \in S \ {x} : PathLess(x, y)
         IN  <<m>> \o sorted(S \ {m})

\* one part of a pattern against one name: "*" matches every name
PartMatches(pat, name) == pat = "*" \/ pat = name

\* Path().glob(outglob): the directories and the files the pattern matches;
\* "**" alone matches the current directory and every directory below it
Glob(f, outglob) ==
    IF outglob = <<"**">>
    THEN { [path |-> p, is_dir |-> TRUE] : p \in DOMAIN f }
    ELSE { [path |-> p, is_dir |-> TRUE] :
             p \in { q \in DOMAIN f : /\ Len(q) = Len(outglob)
                                      /\ \A i \in 1..Len(q) : PartMatches(outglob[i], q[i]) } }
         \cup
         { [path |-> e[1], file |-> e[2], is_dir |-> FALSE] :
             e \in { x \in UNION { {q} \X DOMAIN f[q].files : q \in DOMAIN f } :
                       /\ Len(x[1]) + 1 = Len(outglob)
                       /\ \A i \in 1..Len(x[1]) : PartMatches(outglob[i], x[1][i])
                       /\ outglob[Len(outglob)] = "*" } }

\* the set comprehension of lines 172-177
ScanSet(f, outglobs) ==
    { e.path : e \in { x \in UNION { Glob(f, outglobs[i]) : i \in 1..Len(outglobs) } :
                         x.is_dir } }

\* mutant: only the children of cur_dir leave the queue
DropChildren(queue, cur_dir) ==
    SelectSeq(queue, LAMBDA p : Len(p) = 0 \/ SubSeq(p, 1, Len(p) - 1) # cur_dir)

\* line 188: [p for p in scan_dirs if cur_dir not in p.parents]
DropDescendants(queue, cur_dir) ==
    SelectSeq(queue, LAMBDA p : cur_dir \notin Parents(p))

\* line 168: what main passes as clean_dir's args when no pattern is given
NoGlobArgs(a) == [ns |-> FALSE, int |-> a.every_n_epochs]

(***************************************************************************)
(* SpecMain: one run of main over a small tree of directories.             *)
(***************************************************************************)
Tree == { cwd, <<"a">>, <<"a", "b">>, <<"b">> }

ChildNames(p) == { <<Word(q[Len(q)])>> : q \in { r \in Tree : Len(r) = Len(p) + 1 /\ SubSeq(r, 1, Len(p)) = p } }

W(e) == Name3(Word("weights"), str(e), Word("pkl"))

\* what a directory of the tree may hold: the output of a training run, the
\* same without a config, the output of another tool, a config that is not YAML
TrainedDir ==
    [x \in {ConfigNames[1], W(0), W(1)} |->
        IF x = ConfigNames[1] THEN Yaml(Returns(TrainedConfig("train_vae"))) ELSE Data(0)]

NoConfigDir == [x \in {W(1)} |-> Data(0)]

OtherToolDir ==
    [x \in {ConfigNames[1], W(1)} |->
        IF x = ConfigNames[1]
        THEN Yaml(Returns(PyMap([k \in {"cmd"} |->
                PyList(<<PyStr(Word("relion")), PyStr(Word("train_nn"))>>)])))
        ELSE Data(0)]

BrokenYamlDir ==
    [x \in {ConfigNames[1], W(1)} |->
        IF x = ConfigNames[1] THEN Yaml(Raises("YAMLError")) ELSE Data(0)]

\* a and a/b hold any of the four, the current directory and b one of the first two
Templates(p) ==
    IF p \in { <<"a">>, <<"a", "b">> }
    THEN { TrainedDir, NoConfigDir, OtherToolDir, BrokenYamlDir }
    ELSE { TrainedDir, NoConfigDir }

Patterns == { <<"**">>, <<"*">>, <<"*", "*">>, <<"a">>, <<"c">> }

InitMain ==
    /\ \E t \in { u \in [Tree -> UNION { Templates(p) : p \in Tree }] :
                     \A p \in Tree : u[p] \in Templates(p) } :
          fs = [p \in Tree |-> [files |-> t[p], dirs |-> ChildNames(p)]]
    /\ fs0 = fs
    /\ \E g \in ListsUpTo(Patterns, MaxGlobs), n \in {1, every_n_epochs_default}, force \in BOOLEAN, dry \in BOOLEAN :
          margs = Namespace(n, force, dry) @@ [outglobs |-> g]
    /\ pc = "start"
    /\ scan_dirs = <<>>
    /\ log = <<>>
    /\ cleaned = {}
    /\ CleanIdle /\ ConfigIdle /\ FixtureIdle

\* main with no pattern: line 168
MainNoGlob ==
    /\ pc = "start"
    /\ margs.outglobs = <<>>
    /\ LET r == clean_dir(fs[cwd], NoGlobArgs(margs))
       IN  /\ fs' = [fs EXCEPT ![cwd] = r.dir]
           /\ pc' = IF r.exc = "none" THEN "done" ELSE "error"
    /\ cleaned' = cleaned \cup {cwd}
    /\ UNCHANGED <<fs0, margs, scan_dirs, log, cleanVars, configVars, fixtureVars>>

\* main with patterns: lines 171-179; max() of an empty list raises ValueError
MainGlob ==
    /\ pc = "start"
    /\ margs.outglobs # <<>>
    /\ scan_dirs' = sorted(ScanSet(fs, margs.outglobs))
    /\ pc' = IF scan_dirs' = <<>> THEN "error" ELSE "loop"
    /\ UNCHANGED <<fs, fs0, margs, log, cleaned, cleanVars, configVars, fixtureVars>>

\* one iteration of the while loop: lines 182-188
MainIter(answer) ==
    /\ pc = "loop"
    /\ LET cur_dir == Head(scan_dirs)
           rest == Tail(scan_dirs)
           cfg == check_open_config(fs[cur_dir])
           r == prompt_dir(fs[cur_dir], cfg.val, margs, answer)
       IN  IF cfg.exc # "none"
           THEN /\ pc' = "error"
                /\ scan_dirs' = rest
                /\ log' = Append(log, [d |-> cur_dir, cfg |-> cfg, prompted |-> FALSE,
                                       entered |-> FALSE])
                /\ UNCHANGED <<fs, cleaned>>
           ELSE /\ fs' = [fs EXCEPT ![cur_dir] = r.dir]
                /\ log' = Append(log, [d |-> cur_dir, cfg |-> cfg, prompted |-> r.prompted,
                                       entered |-> r.entered])
                /\ cleaned' = IF r.entered THEN cleaned \cup {cur_dir} ELSE cleaned
                /\ scan_dirs' = IF Truthy(cfg.val) THEN DropDescendants(rest, cur_dir)
                                ELSE rest
                /\ pc' = IF r.exc # "none" THEN "error"
                         ELSE IF scan_dirs' = <<>> THEN "done" ELSE "loop"
    /\ UNCHANGED <<fs0, margs, cleanVars, configVars, fixtureVars>>

NextMain ==
    \/ MainNoGlob
    \/ MainGlob
    \/ \E answer \in {"s", "skip", "y"} : MainIter(answer)

SpecMain == InitMain /\ [][NextMain]_vars

(***************************************************************************)
(* Claims about main, checked under SpecMain.                              *)
(***************************************************************************)
\* check_open_config returned a non-empty mapping for p in this run
PositivelyClassified(p) ==
    \E i \in 1..Len(log) :
        /\ log[i].d = p
        /\ log[i].cfg.exc = "none"
        /\ log[i].cfg.val.t = "map"
        /\ DOMAIN log[i].cfg.val.m # {}

FilesDeleted(p) == (DOMAIN fs0[p].files) \ (DOMAIN fs[p].files) # {}

\* C2: whatever the patterns, the options and the operator's answers, no file is
\* deleted from a directory for which check_open_config did not return a non-empty
\* mapping in this run.
C2_DeletesOnlyInRecognized ==
    \A p \in Tree : FilesDeleted(p) => PositivelyClassified(p)

\* C2 witness: the run is over; files were deleted in one directory, and another
\* directory, classified as not recognized, still holds a file the rule would delete
C2_Witness ==
    /\ pc = "done"
    /\ \E p \in Tree : FilesDeleted(p)
    /\ \E q \in Tree :
          /\ \E i \in 1..Len(log) : log[i].d = q /\ ~Truthy(log[i].cfg.val)
          /\ W(1) \in DOMAIN fs[q].files
          /\ margs.every_n_epochs > 1

\* q lies below p in the file system
IsDescendant(q, p) == Len(q) > Len(p) /\ SubSeq(q, 1, Len(p)) = p

\* C6: once a directory has been classified as recognized, no descendant of it is
\* classified, prompted for or cleaned later in the run.
C6_DescendantsSkipped ==
    \A i \in 1..Len(log) : \A j \in (i + 1)..Len(log) :
        (log[i].cfg.exc = "none" /\ Truthy(log[i].cfg.val))
            => ~IsDescendant(log[j].d, log[i].d)

\* C6 witness: the run is over; a recognized directory had a descendant on the
\* scan list, which was never classified, and a directory after it was classified
C6_Witness ==
    /\ pc = "done"
    /\ \E i \in 1..Len(log) :
          /\ Truthy(log[i].cfg.val)
          /\ i < Len(log)
          /\ \E q \in ScanSet(fs0, margs.outglobs) :
                /\ IsDescendant(q, log[i].d)
                /\ \A j \in 1..Len(log) : log[j].d # q

\* C8: with no pattern the current directory is classified by check_open_config,
\* is cleaned only if it is recognized, and the run completes without an exception.
C8_NoPatternScansCwd ==
    (margs.outglobs = <<>> /\ pc # "start") =>
        /\ pc = "done"
        /\ \E i \in 1..Len(log) : log[i].d = cwd
        /\ cwd \in cleaned => PositivelyClassified(cwd)

(***************************************************************************)
(* TrainDir (tests/conftest.py)                                            *)
(*                                                                         *)
(* td.outdir is the output directory; td.cache the files of orig_cache.    *)
(* td.snap, td.created, td.lost and td.restored are history: the files of  *)
(* the output directory when the snapshot was taken, the names created     *)
(* there since, the snapshot files deleted or rewritten since, and whether *)
(* replace_files was the last thing to touch the directory.                *)
(***************************************************************************)
\* f"weights{epoch_lbl}.pkl", f"reconstruct{epoch_lbl}.mrc", f"z{epoch_lbl}.pkl":
\* epoch_lbl is "" or "." followed by the epoch
Labelled(lbl, epoch_lbl, ext) ==
    IF epoch_lbl = <<>> THEN Name2(Word(lbl), Word(ext))
    ELSE Name3(Word(lbl), epoch_lbl[1], Word(ext))

\* os.listdir(self.outdir)
out_files(t) == (DOMAIN t.outdir.files) \cup t.outdir.dirs

\* lines 105-108: `if epoch:` is false for None and for epoch 0
epoch_lbl_of(epoch) == IF Truthy(epoch) THEN <<str(epoch.i)>> ELSE <<>>

\* epoch_cleaned(epoch) for an epoch in range or None
epoch_cleaned(t, epoch) ==
    LET epoch_lbl == epoch_lbl_of(epoch)
        c1 == ~(Labelled("weights", epoch_lbl, "pkl") \in out_files(t))
        c2 == IF t.train_cmd = "train_nn"
              THEN IF Labelled("reconstruct", epoch_lbl, "mrc") \in out_files(t)
                   THEN FALSE ELSE c1
              ELSE IF t.train_cmd = "train_vae"
              THEN IF Labelled("z", epoch_lbl, "pkl") \in out_files(t)
                   THEN FALSE ELSE c1
              ELSE c1
    IN  c2

\* all_files_present
all_files_present(t) ==
    ~(\/ \E e \in 0..(t.epochs - 1) : epoch_cleaned(t, PyInt(e))
      \/ epoch_cleaned(t, PyNone))

\* the files the training tool writes for epochs first..(n - 1) and at the end
ModeFile(train_cmd, epoch_lbl) ==
    IF train_cmd = "train_nn" THEN Labelled("reconstruct", epoch_lbl, "mrc")
    ELSE Labelled("z", epoch_lbl, "pkl")

TrainOutput(train_cmd, first, n) ==
    UNION { { Labelled("weights", <<str(e)>>, "pkl"), ModeFile(train_cmd, <<str(e)>>) } :
              e \in first..(n - 1) }
        \cup { Labelled("weights", <<>>, "pkl"), ModeFile(train_cmd, <<>>),
               ConfigNames[1] }

\* what the tool writes into a file
Written(train_cmd, name, v) ==
    IF name = ConfigNames[1] THEN Yaml(Returns(TrainedConfig(train_cmd))) @@ [ver |-> v]
    ELSE Data(v)

\* b's entries written over a's
Overwrite(a, b) ==
    [x \in (DOMAIN a) \cup (DOMAIN b) |-> IF x \in DOMAIN b THEN b[x] ELSE a[x]]

OrigCacheName == <<Word("orig_cache")>>

\* lines 54-60: the snapshot
Snapshot(t) == [x \in DOMAIN t.outdir.files |-> t.outdir.files[x]]

\* mutant: only the files missing from the output directory are copied back
replace_files_missing_only(t) ==
    [t EXCEPT !.outdir.files =
        Overwrite(t.cache, t.outdir.files), !.restored = TRUE]

\* replace_files: every file of orig_cache is copied over the output directory
replace_files(t) ==
    [t EXCEPT !.outdir.files = Overwrite(t.outdir.files, t.cache), !.restored = TRUE]

(***************************************************************************)
(* SpecFixture: a TrainDir is built, tests change its output directory,    *)
(* replace_files restores it.                                              *)
(***************************************************************************)
InitFixture ==
    /\ \E c \in {"train_nn", "train_vae"}, n \in 1..MaxTrainEpochs :
          td = [state |-> "new", train_cmd |-> c, epochs |-> n,
                outdir |-> [files |-> NoFiles, dirs |-> {}],
                cache |-> NoFiles, snap |-> NoFiles, created |-> {}, lost |-> {},
                restored |-> FALSE]
    /\ CleanIdle /\ ConfigIdle /\ MainIdle

\* TrainDir.__init__: the run writes its output but for the files in `missing`
Construct(missing, finished) ==
    /\ td.state = "new"
    /\ LET wrote == TrainOutput(td.train_cmd, 0, td.epochs) \ missing
           t1 == [td EXCEPT !.outdir.files = [x \in wrote |-> Written(td.train_cmd, x, 0)]]
       IN  IF ~finished \/ ~all_files_present(t1)
           THEN td' = [t1 EXCEPT !.state = "failed"]
           ELSE td' = [t1 EXCEPT !.state = "ready",
                                  !.cache = Snapshot(t1),
                                  !.snap = t1.outdir.files,
                                  !.outdir.dirs = {OrigCacheName}]
    /\ UNCHANGED <<cleanVars, configVars, mainVars>>

\* a test runs the cleaner on the output directory
CleanerRun(n) ==
    /\ td.state = "ready"
    /\ LET r == clean_dir(td.outdir, Namespace(n, TRUE, FALSE))
       IN  /\ r.dir # td.outdir
           /\ td' = [td EXCEPT !.outdir = r.dir, !.restored = FALSE,
                                !.lost = td.lost \cup ((DOMAIN td.snap) \ DOMAIN r.dir.files)]
    /\ UNCHANGED <<cleanVars, configVars, mainVars>>

\* train_load_epoch(load_epoch, train_epochs): the run fails when the checkpoint
\* to load is gone; the assertions leave the object as it is by then
TrainLoadEpoch(load_epoch, train_epochs) ==
    /\ td.state = "ready"
    /\ load_epoch \in 0..(td.epochs - 1)
    /\ Labelled("weights", <<str(load_epoch)>>, "pkl") \in DOMAIN td.outdir.files
    /\ LET wrote == TrainOutput(td.train_cmd, load_epoch + 1, train_epochs)
       IN  td' = [td EXCEPT
                    !.outdir.files = Overwrite(td.outdir.files,
                                        [x \in wrote |-> Written(td.train_cmd, x, 1)]),
                    !.epochs = train_epochs,
                    !.created = td.created \cup (wrote \ DOMAIN td.snap),
                    !.lost = td.lost \cup (wrote \cap DOMAIN td.snap),
                    !.restored = FALSE]
    /\ UNCHANGED <<cleanVars, configVars, mainVars>>

\* the trained_dir fixture's teardown
ReplaceFiles ==
    /\ td.state = "ready"
    /\ ~td.restored
    /\ td' = replace_files(td)
    /\ UNCHANGED <<cleanVars, configVars, mainVars>>

NextFixture ==
    \/ \E missing \in { m \in SUBSET TrainOutput(td.train_cmd, 0, td.epochs) :
                          Cardinality(m) <= MaxMissing },
          finished \in BOOLEAN : Construct(missing, finished)
    \/ \E n \in 1..MaxN : CleanerRun(n)
    \/ \E l \in 0..(MaxTrainEpochs - 1), n \in 1..MaxTrainEpochs : TrainLoadEpoch(l, n)
    \/ ReplaceFiles

SpecFixture == InitFixture /\ [][NextFixture]_vars

(***************************************************************************)
(* Claims about TrainDir, checked under SpecFixture.                       *)
(***************************************************************************)
\* the full expected set of output files of t
ExpectedFiles(t) ==
    LET mode(sfx) == IF t.train_cmd = "train_vae" THEN <<Word("z")>> \o sfx \o <<Word("pkl")>>
                     ELSE <<Word("reconstruct")>> \o sfx \o <<Word("mrc")>>
    IN  UNION { { <<Word("weights"), str(e), Word("pkl")>>, mode(<<str(e)>>) } :
                  e \in 0..(t.epochs - 1) }
          \cup { <<Word("weights"), Word("pkl")>>, mode(<<>>) }

\* C9: all_files_present is true only if every expected output file is in the
\* output directory; so a TrainDir whose assertions passed has them all.
C9_AllFilesPresentMeansAll ==
    (td.state = "ready" /\ all_files_present(td)) =>
        ExpectedFiles(td) \subseteq DOMAIN td.outdir.files

====
